---- MODULE Spec2Model ----
(***************************************************************************)
(* The BPE model of tokenizers/src/models/bpe/model.rs: the builder, the   *)
(* built model with its cache, and tokenize.                               *)
(*                                                                         *)
(* Strings are sequences of bytes (UTF-8), so that byte lengths, character *)
(* boundaries, decorations and the "<0xNN>" byte tokens are computed as    *)
(* the code computes them.  Option<T> is a set: None is {} and Some(x) is  *)
(* {x}.  Word and Cache are not part of the sources at hand; they follow   *)
(* sections 4.1 and 4.2 of the specification.                              *)
(***************************************************************************)
EXTENDS Integers, Sequences, FiniteSets, TLC

VARIABLES pc, config, bpe, cache, last

vars == <<pc, config, bpe, cache, last>>

----------------------------------------------------------------------------
(* Bounds of the model *)

\* longest input sequence, in bytes
MaxBytes == 3

\* largest cache capacity given to the builder or to resize_cache
MaxCap == 1

\* dropout probabilities are the multiples of 1/DropScale; the samples drawn
\* in [0, 1) are the multiples of 1/DropScale below 1
DropScale == 2

----------------------------------------------------------------------------
(* Option and strings *)

None == {}

Some(x) == {x}

Unwrap(o) == CHOOSE x \in o : TRUE

\* the characters of the inputs: "a", "c" and the two-byte "e-acute"
ChA == <<97>>

ChC == <<99>>

ChE == <<195, 169>>

Alphabet == {ChA, ChC, ChE}

RECURSIVE StrsUpTo(_)
StrsUpTo(n) ==
    IF n = 0 THEN {<< >>}
    ELSE LET shorter == StrsUpTo(n - 1)
         IN  shorter \cup {s \o c : s \in shorter, c \in Alphabet}

\* every valid UTF-8 string over the alphabet of at most MaxBytes bytes
Inputs == {s \in StrsUpTo(MaxBytes) : Len(s) <= MaxBytes}

\* "<unk>", "[UNK]", "##", "$"
StrUnk == <<60, 117, 110, 107, 62>>

StrUnkMissing == <<91, 85, 78, 75, 93>>

StrPrefix == <<35, 35>>

StrSuffix == <<36>>

\* one uppercase hexadecimal digit, as its ASCII code
HexDigit(n) == IF n < 10 THEN 48 + n ELSE 65 + (n - 10)

\* format!("<{b:#04X}>"): '<', "0x", two uppercase hex digits, '>'
ByteCode(b) == <<60, 48, 120, HexDigit(b \div 16), HexDigit(b % 16), 62>>

\* a UTF-8 continuation byte starts no character
IsContinuation(b) == b >= 128 /\ b < 192

\* w.char_indices(): the 1-based positions at which a character starts
CharStarts(w) ==
    LET idx == {i \in 1..Len(w) : ~IsContinuation(w[i])}
        nth[k \in 1..Cardinality(idx)] ==
            CHOOSE i \in idx : Cardinality({j \in idx : j < i}) = k - 1
    IN  nth

\* whether byte offset n (0-based) is a character boundary of w
IsCharBoundary(w, n) ==
    n = 0 \/ n = Len(w) \/ (n < Len(w) /\ ~IsContinuation(w[n + 1]))

----------------------------------------------------------------------------
(* Word (specification, section 4.1) *)

Symbol(c, len, prev, next) == [c |-> c, len |-> len, prev |-> prev, next |-> next]

EmptyWord == << >>

\* an add that appends the symbol without linking it
WordAddUnlinked(word, c, byte_len) == Append(word, Symbol(c, byte_len, -1, -1))

\* Word::add: append at the tail, linked to the previous tail
WordAdd(word, c, byte_len) ==
    LET n == Len(word)
    IN  IF n = 0 THEN <<Symbol(c, byte_len, -1, -1)>>
        ELSE Append([word EXCEPT ![n].next = n], Symbol(c, byte_len, n - 1, -1))

Live(word, i) == i >= 0 /\ i < Len(word) /\ word[i + 1].len # 0

\* the candidate of the adjacent pair (i, j), if the merge map has its ids
Candidate(word, merges, i, j) ==
    LET pair == <<word[i + 1].c, word[j + 1].c>>
    IN  IF pair \in DOMAIN merges
        THEN {[rank |-> merges[pair][1], i |-> i, j |-> j, new_id |-> merges[pair][2]]}
        ELSE {}

InitialQueue(word, merges) ==
    UNION {Candidate(word, merges, i, word[i + 1].next) :
              i \in {k \in 0..(Len(word) - 1) : Live(word, k) /\ Live(word, word[k + 1].next)}}

\* smallest rank first, then the largest position
PopRightmost(q) ==
    CHOOSE e \in q : \A f \in q :
        \/ e.rank < f.rank
        \/ e.rank = f.rank /\ e.i > f.i
        \/ e.rank = f.rank /\ e.i = f.i /\ e.j >= f.j

\* smallest rank first, then the smallest position
PopMin(q) ==
    CHOOSE e \in q : \A f \in q :
        \/ e.rank < f.rank
        \/ e.rank = f.rank /\ e.i < f.i
        \/ e.rank = f.rank /\ e.i = f.i /\ e.j <= f.j

Stale(word, merges, e) ==
    \/ ~Live(word, e.i)
    \/ ~Live(word, e.j)
    \/ word[e.i + 1].next # e.j
    \/ LET pair == <<word[e.i + 1].c, word[e.j + 1].c>>
       IN  pair \notin DOMAIN merges \/ merges[pair][2] # e.new_id

\* a merge that leaves the Word as it is
ApplyNothing(word, e) == word

\* apply the merge of e: i takes the new id and both lengths, j is unlinked
ApplyMerge(word, e) ==
    LET right == word[e.j + 1]
        w1 == [word EXCEPT ![e.i + 1].c = e.new_id,
                           ![e.i + 1].len = word[e.i + 1].len + right.len,
                           ![e.i + 1].next = right.next,
                           ![e.j + 1].len = 0]
    IN  IF right.next >= 0 THEN [w1 EXCEPT ![right.next + 1].prev = e.i] ELSE w1

\* the pair to the right of a merged symbol only
NewPairsRight(word, merges, i) ==
    LET n == word[i + 1].next
    IN  IF Live(word, n) THEN Candidate(word, merges, i, n) ELSE {}

NewPairs(word, merges, i) ==
    LET p == word[i + 1].prev
        n == word[i + 1].next
    IN  (IF Live(word, p) THEN Candidate(word, merges, p, i) ELSE {})
        \cup (IF Live(word, n) THEN Candidate(word, merges, i, n) ELSE {})

\* the outcomes of "a uniform sample in [0,1) is below the dropout"
SkipOutcomes(dropout) ==
    IF dropout = None THEN {FALSE}
    ELSE {sample < Unwrap(dropout) : sample \in 0..(DropScale - 1)}

\* Word::merge_all: every Word the greedy merging can end with
RECURSIVE MergeLoop(_, _, _, _)
MergeLoop(word, q, merges, dropout) ==
    IF q = {} THEN {word}
    ELSE LET top == PopMin(q)
             rest == q \ {top}
         IN  IF Stale(word, merges, top) THEN MergeLoop(word, rest, merges, dropout)
             ELSE UNION {
                    IF skip THEN MergeLoop(word, rest, merges, dropout)
                    ELSE LET merged == ApplyMerge(word, top)
                         IN  MergeLoop(merged, rest \cup NewPairs(merged, merges, top.i),
                                       merges, dropout)
                    : skip \in SkipOutcomes(dropout)}

MergeAll(word, merges, dropout) ==
    MergeLoop(word, InitialQueue(word, merges), merges, dropout)

\* the live symbols, in order
LiveSymbols(word) == SelectSeq(word, LAMBDA s : s.len # 0)

\* get_chars_iter zipped with get_offsets_iter: (id, (start, end)) per live symbol
RECURSIVE OffsetsFrom(_, _, _)
OffsetsFrom(syms, k, pos) ==
    IF k > Len(syms) THEN << >>
    ELSE <<[id |-> syms[k].c, offsets |-> <<pos, pos + syms[k].len>>]>>
         \o OffsetsFrom(syms, k + 1, pos + syms[k].len)

CharsWithOffsets(word) == OffsetsFrom(LiveSymbols(word), 1, 0)

----------------------------------------------------------------------------
(* Cache (specification, section 4.2): a bounded map from sequence to Word *)

\* MAX_LENGTH: sequences of this many bytes or more are not cached (256 in the
\* crate; here the longest inputs, so that both cases occur)
MAX_LENGTH == MaxBytes

NewCache(capacity) == [capacity |-> capacity, map |-> << >>]

\* a get that answers with the Word of whatever key the cache holds
CacheGetOther(c, key) ==
    IF DOMAIN c.map # {} THEN Some(c.map[CHOOSE k \in DOMAIN c.map : TRUE]) ELSE None

CacheGet(c, key) == IF key \in DOMAIN c.map THEN Some(c.map[key]) ELSE None

Restrict(f, keys) == [k \in keys |-> f[k]]

\* set: stores the entry while there is room; under pressure the cache either
\* does not admit it or evicts some other entry for it
CacheSet(c, key, word) ==
    LET others == DOMAIN c.map \ {key}
        put(keep) == [c EXCEPT !.map = (key :> word) @@ Restrict(c.map, keep)]
    IN  IF Cardinality(others) < c.capacity THEN {put(others)}
        ELSE {c} \cup (IF c.capacity = 0 THEN {}
                       ELSE {put(others \ {k}) : k \in others})

CacheClear(c) == [c EXCEPT !.map = << >>]

\* resize: the new capacity, keeping any of the entries
CacheResize(c, capacity) ==
    {[capacity |-> capacity, map |-> Restrict(c.map, keep)] : keep \in SUBSET DOMAIN c.map}

----------------------------------------------------------------------------
(* The files of a model: vocab.json as the JSON value it parses to, merges.txt *)
(* as its lines.                                                              *)

\* JSON values of the vocab object (serde_json::Value)
PosInt(n) == [t |-> "PosInt", n |-> n]

NegInt == [t |-> "NegInt"]

Float == [t |-> "Float"]

JsonString == [t |-> "String"]

JsonNull == [t |-> "Null"]

JsonArray == [t |-> "Array"]

\* Value::Number
IsNumber(v) == v.t \in {"PosInt", "NegInt", "Float"}

\* Number::as_u64
AsU64(v) == IF v.t = "PosInt" THEN Some(v.n) ELSE None

JsonObject(map) == [kind |-> "object", map |-> map]

\* a JSON document that is no object, and a file that is no JSON
JsonNotObject == [kind |-> "array"]

JsonInvalid == [kind |-> "invalid"]

\* the vocab part of read_file (the ids are below 2^32: `as u32` keeps them)
ReadVocab(json) ==
    IF json.kind = "invalid" THEN [kind |-> "JsonError"]
    ELSE IF json.kind # "object" THEN [kind |-> "BadVocabulary"]
    ELSE IF \E token \in DOMAIN json.map :
                IsNumber(json.map[token]) /\ AsU64(json.map[token]) = None
    THEN [kind |-> "BadVocabulary"]
    ELSE [kind |-> "ok",
          vocab |-> [token \in {x \in DOMAIN json.map : IsNumber(json.map[x])} |->
                        Unwrap(AsU64(json.map[token]))]]

\* l.starts_with(p)
StartsWith(l, p) == Len(l) >= Len(p) /\ SubSeq(l, 1, Len(p)) = p

\* "#version"
StrVersion == <<35, 118, 101, 114, 115, 105, 111, 110>>

\* line.split(' ')
RECURSIVE SplitOn(_, _)
SplitOn(line, sep) ==
    IF \A k \in 1..Len(line) : line[k] # sep THEN <<line>>
    ELSE LET i == CHOOSE k \in 1..Len(line) :
                      line[k] = sep /\ \A j \in 1..(k - 1) : line[j] # sep
         IN  <<SubSeq(line, 1, i - 1)>> \o SplitOn(SubSeq(line, i + 1, Len(line)), sep)

\* the loop of convert_merges_to_hashmap over the filtered lines, from the k-th
RECURSIVE ConvertLines(_, _, _)
ConvertLines(lines, k, merges) ==
    IF k > Len(lines) THEN [kind |-> "ok", merges |-> merges]
    ELSE LET parts == SplitOn(lines[k], 32)
         IN  IF Len(parts) # 2 THEN [kind |-> "BadMerges", line |-> k]
             ELSE ConvertLines(lines, k + 1, Append(merges, <<parts[1], parts[2]>>))

\* convert_merges_to_hashmap
ConvertMerges(lines) ==
    ConvertLines(SelectSeq(lines, LAMBDA l : ~StartsWith(l, StrVersion)), 1, << >>)

\* BPE::read_file
ReadFile(files) ==
    LET v == ReadVocab(files.vocab)
        m == ConvertMerges(files.merges)
    IN  IF v.kind # "ok" THEN v
        ELSE IF m.kind # "ok" THEN m
        ELSE [kind |-> "ok", vocab |-> v.vocab, merges |-> m.merges]

\* OrderedVocabIter serialized: one "token": id member per entry of vocab_r
SavedVocab(vocab_r) ==
    JsonObject([token \in {vocab_r[i] : i \in DOMAIN vocab_r} |->
                   PosInt(CHOOSE i \in DOMAIN vocab_r : vocab_r[i] = token)])

\* "#version: 0.2"
StrVersionLine == StrVersion \o <<58, 32, 48, 46, 50>>

\* the pairs of the merge map sorted by rank, each as the line "a b"
RECURSIVE SavedLines(_, _, _)
SavedLines(vocab_r, merges, pairs) ==
    IF pairs = {} THEN << >>
    ELSE LET pair == CHOOSE pr \in pairs : \A other \in pairs : merges[pr][1] <= merges[other][1]
         IN  <<vocab_r[pair[1]] \o <<32>> \o vocab_r[pair[2]]>>
             \o SavedLines(vocab_r, merges, pairs \ {pair})

\* Model::save: the two files written
SaveFiles(m) ==
    [vocab |-> SavedVocab(m.vocab_r),
     merges |-> <<StrVersionLine>> \o SavedLines(m.vocab_r, m.merges, DOMAIN m.merges)]

----------------------------------------------------------------------------
(* BpeBuilder *)

\* the vocabulary of the model, token -> id (the ids are not contiguous from 0):
\*   "<unk>" "a" "aa" "aaa" "##a" "a$" "##a$" "aa$" "aaa$" "<0xC3>" "<0xA9>" "<0x24>"
\*   "ac" (a token with a character that is no token itself)
Vocab0 ==
    (StrUnk :> 10) @@ (<<97>> :> 11) @@ (<<97, 97>> :> 12) @@ (<<97, 97, 97>> :> 13)
    @@ (<<35, 35, 97>> :> 14) @@ (<<97, 36>> :> 15) @@ (<<35, 35, 97, 36>> :> 16)
    @@ (<<97, 97, 36>> :> 17) @@ (<<97, 97, 97, 36>> :> 18)
    @@ (ByteCode(195) :> 19) @@ (ByteCode(169) :> 20) @@ (ByteCode(36) :> 21)
    @@ (<<97, 99>> :> 22)

\* ("a","a") ("a","a$") ("aa","a$")
MergesPlain ==
    << <<<<97>>, <<97>>>>, <<<<97>>, <<97, 36>>>>, <<<<97, 97>>, <<97, 36>>>> >>

\* ("a","##a") ("aa","##a") ("a","##a$"), written for the prefix "##"
MergesPrefixed ==
    << <<<<97>>, <<35, 35, 97>>>>, <<<<97, 97>>, <<35, 35, 97>>>>,
       <<<<97>>, <<35, 35, 97, 36>>>> >>

\* every combination of the builder's settings
AllConfigs ==
    [files : {None},
     vocab : {Vocab0},
     merges : {MergesPlain, MergesPrefixed},
     cache_capacity : 0..MaxCap,
     dropout : {None} \cup {Some(p) : p \in (-1)..(DropScale + 1)},
     unk_token : {None, Some(StrUnk), Some(StrUnkMissing)},
     continuing_subword_prefix : {None, Some(StrPrefix)},
     end_of_word_suffix : {None, Some(StrSuffix)},
     fuse_unk : BOOLEAN,
     byte_fallback : BOOLEAN,
     ignore_merges : BOOLEAN]

\* the configurations given to the builder: every combination without a cache,
\* and with a cache every combination of the undecorated ones
Configs ==
    {cfg \in AllConfigs :
        cfg.cache_capacity > 0 =>
            cfg.continuing_subword_prefix = None /\ cfg.end_of_word_suffix = None}

\* the range without its two ends
ValidDropoutOpen(p) == p > 0 /\ p < DropScale

\* (0.0..=1.0).contains(&p)
ValidDropout(p) == p >= 0 /\ p <= DropScale

\* the inverse vocabularies that collecting (id, token) into a map can give
RECURSIVE InverseMaps(_, _)
InverseMaps(vocab, ids) ==
    IF ids = {} THEN {<< >>}
    ELSE LET i == CHOOSE x \in ids : TRUE
         IN  {(i :> s) @@ f : s \in {t \in DOMAIN vocab : vocab[t] = i},
                              f \in InverseMaps(vocab, ids \ {i})}

VocabR(vocab) == InverseMaps(vocab, {vocab[t] : t \in DOMAIN vocab})

\* the value stored for a pair: (rank, new_id)
MergeEntrySwapped(rank, new_id) == <<new_id, rank>>

MergeEntry(rank, new_id) == <<rank, new_id>>

\* a map that keeps the entry it already has for a pair
CollectEntryFirst(acc, pair, entry) == acc @@ (pair :> entry)

\* .collect() into the merge map: the entry of a pair replaces an earlier one
CollectEntry(acc, pair, entry) == (pair :> entry) @@ acc

\* the merge map of build: each merge in list order, stopping at the first failure
RECURSIVE BuildMerges(_, _, _, _, _)
BuildMerges(vocab, merges, prefix_len, k, acc) ==
    IF k > Len(merges) THEN [kind |-> "ok", merges |-> acc]
    ELSE LET a == merges[k][1]
             b == merges[k][2]
         IN  IF a \notin DOMAIN vocab
             THEN [kind |-> "MergeTokenOutOfVocabulary", token |-> a]
             ELSE IF b \notin DOMAIN vocab
             THEN [kind |-> "MergeTokenOutOfVocabulary", token |-> b]
             ELSE IF prefix_len > Len(b) \/ ~IsCharBoundary(b, prefix_len)
             THEN [kind |-> "panic"]
             ELSE LET new_token == a \o SubSeq(b, prefix_len + 1, Len(b))
                  IN  IF new_token \notin DOMAIN vocab
                      THEN [kind |-> "MergeTokenOutOfVocabulary", token |-> new_token]
                      ELSE BuildMerges(vocab, merges, prefix_len, k + 1,
                                       CollectEntry(acc, <<vocab[a], vocab[b]>>,
                                                    MergeEntry(k - 1, vocab[new_token])))

PrefixLen(cfg) ==
    IF cfg.continuing_subword_prefix # None
    THEN Len(Unwrap(cfg.continuing_subword_prefix)) ELSE 0

\* "Read files if necessary": the error of read_file, or the config with the
\* vocab and merges read
Loaded(cfg) ==
    IF cfg.files = None THEN [kind |-> "ok", config |-> cfg]
    ELSE LET r == ReadFile(Unwrap(cfg.files))
         IN  IF r.kind # "ok" THEN r
             ELSE [kind |-> "ok",
                   config |-> [cfg EXCEPT !.vocab = r.vocab, !.merges = r.merges]]

\* BpeBuilder::build: the error, the panic or the merge map
BuildOutcome(cfg) ==
    IF cfg.dropout # None /\ ~ValidDropout(Unwrap(cfg.dropout))
    THEN [kind |-> "InvalidDropout"]
    ELSE IF Loaded(cfg).kind # "ok" THEN Loaded(cfg)
    ELSE BuildMerges(Loaded(cfg).config.vocab, Loaded(cfg).config.merges,
                     PrefixLen(cfg), 1, << >>)

BuiltCache(cfg) ==
    IF cfg.cache_capacity = 0 THEN None ELSE Some(NewCache(cfg.cache_capacity))

BuiltModel(cfg, vocab_r, merge_map) ==
    [vocab |-> cfg.vocab,
     vocab_r |-> vocab_r,
     merges |-> merge_map,
     dropout |-> cfg.dropout,
     unk_token |-> cfg.unk_token,
     continuing_subword_prefix |-> cfg.continuing_subword_prefix,
     end_of_word_suffix |-> cfg.end_of_word_suffix,
     fuse_unk |-> cfg.fuse_unk,
     byte_fallback |-> cfg.byte_fallback,
     ignore_merges |-> cfg.ignore_merges]

----------------------------------------------------------------------------
(* BPE::merge_word *)

\* the character's string as looked up: prefix when not first, suffix when last
Decorate(m, s, is_first, is_last) ==
    LET s1 == IF ~is_first /\ m.continuing_subword_prefix # None
              THEN Unwrap(m.continuing_subword_prefix) \o s ELSE s
    IN  IF is_last /\ m.end_of_word_suffix # None
        THEN s1 \o Unwrap(m.end_of_word_suffix) ELSE s1

\* s.bytes() of the byte fallback: s is the decorated string at that point
FallbackBytes(decorated, undecorated) == decorated

\* the vocabulary ids of the byte tokens, or None when a byte has none
ByteTokens(m, bytes) ==
    IF \A j \in 1..Len(bytes) : ByteCode(bytes[j]) \in DOMAIN m.vocab
    THEN Some([j \in 1..Len(bytes) |-> m.vocab[ByteCode(bytes[j])]])
    ELSE None

RECURSIVE AddAll(_, _, _)
AddAll(word, ids, k) ==
    IF k > Len(ids) THEN word ELSE AddAll(WordAdd(word, ids[k], 1), ids, k + 1)

\* word.add of the pending unk, if there is one
FlushUnk(word, unk) ==
    IF unk # None THEN WordAdd(word, Unwrap(unk).id, Unwrap(unk).len) ELSE word

\* the byte-fallback branch: the byte symbols are added and the loop continues
AfterByteFallback(word, unk, tokens) ==
    [word |-> AddAll(word, tokens, 1), unk |-> unk]

\* the unk branch were a pending unk always extended
AfterUnkFused(m, word, unk, byte_len) ==
    IF unk # None
    THEN [kind |-> "ok", word |-> word,
          unk |-> Some([id |-> Unwrap(unk).id, len |-> Unwrap(unk).len + byte_len])]
    ELSE IF Unwrap(m.unk_token) \in DOMAIN m.vocab
    THEN [kind |-> "ok", word |-> word,
          unk |-> Some([id |-> m.vocab[Unwrap(m.unk_token)], len |-> byte_len])]
    ELSE [kind |-> "err", error |-> <<"UnkTokenOutOfVocabulary", Unwrap(m.unk_token)>>]

\* the unk branch were a missing unk_token passed over
AfterUnkLenient(m, word, unk, byte_len) ==
    IF unk # None /\ m.fuse_unk
    THEN [kind |-> "ok", word |-> word,
          unk |-> Some([id |-> Unwrap(unk).id, len |-> Unwrap(unk).len + byte_len])]
    ELSE IF Unwrap(m.unk_token) \in DOMAIN m.vocab
    THEN [kind |-> "ok", word |-> FlushUnk(word, unk),
          unk |-> Some([id |-> m.vocab[Unwrap(m.unk_token)], len |-> byte_len])]
    ELSE [kind |-> "ok", word |-> FlushUnk(word, unk), unk |-> None]

\* the unk branch of the loop: the Word and the pending unk after it, or the error
AfterUnk(m, word, unk, byte_len) ==
    LET unk_token == Unwrap(m.unk_token)
        fresh(w) ==
            IF unk_token \in DOMAIN m.vocab
            THEN [kind |-> "ok", word |-> w,
                  unk |-> Some([id |-> m.vocab[unk_token], len |-> byte_len])]
            ELSE [kind |-> "err", error |-> <<"UnkTokenOutOfVocabulary", unk_token>>]
    IN  IF unk # None /\ m.fuse_unk
        THEN [kind |-> "ok", word |-> word,
              unk |-> Some([id |-> Unwrap(unk).id, len |-> Unwrap(unk).len + byte_len])]
        ELSE IF unk # None
        THEN fresh(WordAdd(word, Unwrap(unk).id, Unwrap(unk).len))
        ELSE fresh(word)

\* no unk_token, were a symbol added for the character all the same
AfterNoUnkKept(word, unk, byte_len) == [word |-> WordAdd(word, 0, byte_len), unk |-> unk]

\* no unk_token (`if let Some(unk_token)` has no else): nothing is added
AfterNoUnk(word, unk, byte_len) == [word |-> word, unk |-> unk]

\* the loop of merge_word over the characters, from the k-th on
RECURSIVE CharLoop(_, _, _, _, _)
CharLoop(m, w, k, word, unk) ==
    LET starts == CharStarts(w)
    IN  IF k > Len(starts) THEN [kind |-> "ok", word |-> FlushUnk(word, unk)]
        ELSE
        LET is_first == starts[k] - 1 = 0
            is_last == k = Len(starts)
            s0 == SubSeq(w, starts[k], IF is_last THEN Len(w) ELSE starts[k + 1] - 1)
            byte_len == Len(s0)
            s == Decorate(m, s0, is_first, is_last)
            tokens == IF m.byte_fallback THEN ByteTokens(m, FallbackBytes(s, s0)) ELSE None
        IN  IF s \in DOMAIN m.vocab
            THEN CharLoop(m, w, k + 1, WordAdd(FlushUnk(word, unk), m.vocab[s], byte_len), None)
            ELSE IF tokens # None
            THEN LET next == AfterByteFallback(word, unk, Unwrap(tokens))
                 IN  CharLoop(m, w, k + 1, next.word, next.unk)
            ELSE IF m.unk_token # None
            THEN LET next == AfterUnk(m, word, unk, byte_len)
                 IN  IF next.kind = "ok" THEN CharLoop(m, w, k + 1, next.word, next.unk)
                     ELSE next
            ELSE LET next == AfterNoUnk(word, unk, byte_len)
                 IN  CharLoop(m, w, k + 1, next.word, next.unk)

\* the Word before merge_all, or the error
CharPass(m, w) == CharLoop(m, w, 1, EmptyWord, None)

\* merge_all called without dropout
MergeDropoutNone(m) == None

\* the dropout handed to merge_all
MergeDropout(m) == m.dropout

\* merge_word: the error, or every Word merge_all can leave
MergeWord(m, w) ==
    LET pass == CharPass(m, w)
    IN  IF pass.kind # "ok" THEN {pass}
        ELSE {[kind |-> "ok", word |-> word] :
                 word \in MergeAll(pass.word, m.merges, MergeDropout(m))}

----------------------------------------------------------------------------
(* BPE::tokenize *)

Token(id, value, offsets) == [id |-> id, value |-> value, offsets |-> offsets]

Ok(tokens) == [kind |-> "ok", tokens |-> tokens]

\* word_to_tokens: vocab_r[&id] panics on an id without an entry
WordToTokens(m, word) ==
    LET cs == CharsWithOffsets(word)
    IN  IF \E k \in 1..Len(cs) : cs[k].id \notin DOMAIN m.vocab_r THEN [kind |-> "panic"]
        ELSE Ok([k \in 1..Len(cs) |-> Token(cs[k].id, m.vocab_r[cs[k].id], cs[k].offsets)])

\* the result of a merge_word outcome
Tokens(m, outcome) ==
    IF outcome.kind = "ok" THEN WordToTokens(m, outcome.word) ELSE outcome

\* whether the ignore_merges shortcut of tokenize_with_cache returns
TakesShortcut(m, sequence) == m.ignore_merges /\ sequence \in DOMAIN m.vocab

ShortcutTokens(m, sequence) ==
    Ok(<<Token(m.vocab[sequence], sequence, <<0, Len(sequence)>>)>>)

\* the test of the insertion were it true of every sequence
CacheableAlways(sequence) == TRUE

\* sequence.len() < MAX_LENGTH
Cacheable(sequence) == Len(sequence) < MAX_LENGTH

\* a key that keeps the first byte of the sequence only
CacheKeyFirst(sequence) == SubSeq(sequence, 1, 1)

\* a key that keeps the length of the sequence only
CacheKeyLen(sequence) == <<Len(sequence)>>

\* the key under which tokenize_with_cache looks a sequence up and stores it
CacheKey(sequence) == sequence

\* tokenize_with_cache: the results with the cache each leaves
TokenizeWithCache(m, c, sequence) ==
    LET hit == IF c # None THEN CacheGet(Unwrap(c), CacheKey(sequence)) ELSE None
    IN  IF TakesShortcut(m, sequence)
        THEN {[result |-> ShortcutTokens(m, sequence), cache |-> c, path |-> "shortcut"]}
        ELSE IF hit # None
        THEN {[result |-> WordToTokens(m, Unwrap(hit)), cache |-> c, path |-> "hit"]}
        ELSE UNION {
               IF outcome.kind # "ok" \/ c = None \/ ~Cacheable(sequence)
               THEN {[result |-> Tokens(m, outcome), cache |-> c, path |-> "miss"]}
               ELSE {[result |-> Tokens(m, outcome), cache |-> Some(c2), path |-> "miss"] :
                        c2 \in CacheSet(Unwrap(c), CacheKey(sequence), outcome.word)}
               : outcome \in MergeWord(m, sequence)}

\* the test of tokenize without its second disjunct
DropoutNoneOnly(m) == m.dropout = None

\* the test of tokenize were it true of every dropout
DropoutAlwaysDisabled(m) == TRUE

\* self.dropout.is_none() || self.dropout == Some(0.0)
DropoutDisabled(m) == m.dropout = None \/ m.dropout = Some(0)

\* Model::tokenize: the results with the cache each leaves
TokenizeOutcomes(m, c, sequence) ==
    IF sequence = << >>
    THEN {[result |-> Ok(<< >>), cache |-> c, path |-> "empty"]}
    ELSE IF DropoutDisabled(m) THEN TokenizeWithCache(m, c, sequence)
    ELSE {[result |-> Tokens(m, outcome), cache |-> c, path |-> "fresh"] :
             outcome \in MergeWord(m, sequence)}

----------------------------------------------------------------------------
(* The state machine: a builder is configured, build is called once, and the *)
(* model is then used.                                                       *)

NoCall == [op |-> "none"]

Init ==
    /\ pc = "builder"
    /\ config \in Configs
    /\ bpe = None
    /\ cache = None
    /\ last = NoCall

\* build() returns Err
BuildErr ==
    /\ pc = "builder"
    /\ BuildOutcome(config).kind \notin {"ok", "panic"}
    /\ pc' = "error"
    /\ last' = [op |-> "build", config |-> config, result |-> BuildOutcome(config)]
    /\ UNCHANGED <<config, bpe, cache>>

\* build() panics slicing the second token of a merge
BuildPanic ==
    /\ pc = "builder"
    /\ BuildOutcome(config).kind = "panic"
    /\ pc' = "panic"
    /\ last' = [op |-> "build", config |-> config, result |-> BuildOutcome(config)]
    /\ UNCHANGED <<config, bpe, cache>>

\* build() returns the model; it consumes the builder
BuildOk ==
    /\ pc = "builder"
    /\ BuildOutcome(config).kind = "ok"
    /\ \E vocab_r \in VocabR(Loaded(config).config.vocab) :
          bpe' = BuiltModel(Loaded(config).config, vocab_r, BuildOutcome(config).merges)
    /\ cache' = BuiltCache(config)
    /\ pc' = "ready"
    /\ last' = [op |-> "build", config |-> config, result |-> [kind |-> "ok"]]
    /\ config' = None

TokenizeCall(sequence) ==
    /\ pc = "ready"
    /\ \E o \in TokenizeOutcomes(bpe, cache, sequence) :
          /\ cache' = o.cache
          /\ last' = [op |-> "tokenize", sequence |-> sequence, result |-> o.result,
                      path |-> o.path]
    /\ UNCHANGED <<pc, config, bpe>>

ClearCache ==
    /\ pc = "ready"
    /\ cache' = IF cache # None THEN Some(CacheClear(Unwrap(cache))) ELSE cache
    /\ last' = [op |-> "clear_cache"]
    /\ UNCHANGED <<pc, config, bpe>>

ResizeCache(capacity) ==
    /\ pc = "ready"
    /\ IF cache # None
       THEN \E c \in CacheResize(Unwrap(cache), capacity) : cache' = Some(c)
       ELSE cache' = cache
    /\ last' = [op |-> "resize_cache"]
    /\ UNCHANGED <<pc, config, bpe>>

\* bpe.dropout = ...: the field is public (the tests assign it)
SetDropout(dropout) ==
    /\ pc = "ready"
    /\ bpe' = [bpe EXCEPT !.dropout = dropout]
    /\ last' = [op |-> "set_dropout"]
    /\ UNCHANGED <<pc, config, cache>>

Tokenize == \E sequence \in Inputs : TokenizeCall(sequence)

Resize == \E capacity \in 0..MaxCap : ResizeCache(capacity)

Dropout == \E dropout \in {None} \cup {Some(p) : p \in 0..DropScale} : SetDropout(dropout)

Next ==
    \/ BuildErr
    \/ BuildPanic
    \/ BuildOk
    \/ Tokenize
    \/ ClearCache
    \/ Resize
    \/ Dropout

Spec == Init /\ [][Next]_vars

----------------------------------------------------------------------------
(* The builder and the files: every way of configuring a builder, from a    *)
(* vocabulary and a merge list or from two files, then build, save and      *)
(* from_file on what was saved.                                             *)

\* BpeBuilder::default (the default cache capacity is taken as MaxCap)
DefaultConfig ==
    [files |-> None,
     vocab |-> << >>,
     merges |-> << >>,
     cache_capacity |-> MaxCap,
     dropout |-> None,
     unk_token |-> None,
     continuing_subword_prefix |-> None,
     end_of_word_suffix |-> None,
     fuse_unk |-> FALSE,
     byte_fallback |-> FALSE,
     ignore_merges |-> FALSE]

\* ("a","a") ("a","a$") ("a","a"): one pair listed twice
MergesRepeated ==
    << <<<<97>>, <<97>>>>, <<<<97>>, <<97, 36>>>>, <<<<97>>, <<97>>>> >>

\* ("a","a") ("c","a") ("a","c"): the second merge lacks its first token
MergesMissingA ==
    << <<<<97>>, <<97>>>>, <<<<99>>, <<97>>>>, <<<<97>>, <<99>>>> >>

\* ("a","c"): the merge lacks its second token, its concatenation "ac" is a token
MergesMissingB == << <<<<97>>, <<99>>>> >>

\* ("c","e"): the merge lacks both tokens
MergesMissingBoth == << <<<<99>>, <<101>>>> >>

\* ("a","a") ("aa","aa"): the concatenation "aaaa" of the second is no token
MergesMissingConcat ==
    << <<<<97>>, <<97>>>>, <<<<97, 97>>, <<97, 97>>>> >>

\* ("a","aa"): under the prefix "##" the second token is as long as the prefix
MergesShortB == << <<<<97>>, <<97, 97>>>> >>

MergeLists ==
    {MergesPlain, MergesPrefixed, MergesRepeated, MergesMissingA, MergesMissingB,
     MergesMissingBoth, MergesMissingConcat, MergesShortB}

\* the builders given a vocabulary and a merge list
DirectConfigs ==
    {[DefaultConfig EXCEPT !.vocab = Vocab0, !.merges = ms, !.dropout = d,
                           !.continuing_subword_prefix = p, !.unk_token = u,
                           !.fuse_unk = f] :
        ms \in MergeLists,
        d \in {None} \cup {Some(x) : x \in (-1)..(DropScale + 1)},
        p \in {None, Some(StrPrefix)},
        u \in {None, Some(StrUnk)},
        f \in BOOLEAN}

\* {"a": 11, "aa": 12, "a$": 15, "aa$": 17}
JsonSmall ==
    (<<97>> :> PosInt(11)) @@ (<<97, 97>> :> PosInt(12)) @@ (<<97, 36>> :> PosInt(15))
    @@ (<<97, 97, 36>> :> PosInt(17))

\* the vocab files: the object above, alone or with one more member "c"
VocabFiles ==
    {JsonObject(JsonSmall), JsonObject(<< >>), JsonNotObject, JsonInvalid}
    \cup {JsonObject(JsonSmall @@ (<<99>> :> v)) :
             v \in {PosInt(22), NegInt, Float, JsonString, JsonNull, JsonArray}}

\* the lines a merges file is made of:
\*   "#version: 0.2"  "#version x"  "a a"  "a a$"  "c"  ""  "a  a"
MergesLines ==
    {StrVersionLine, StrVersion \o <<32, 120>>, <<97, 32, 97>>, <<97, 32, 97, 36>>,
     <<99>>, << >>, <<97, 32, 32, 97>>}

MaxLines == 3

MergesFiles == UNION {[1..n -> MergesLines] : n \in 0..MaxLines}

\* the builders given two files
FileConfigs ==
    {[DefaultConfig EXCEPT !.files = Some([vocab |-> v, merges |-> m]), !.dropout = d] :
        v \in VocabFiles, m \in MergesFiles, d \in {None, Some(DropScale + 1)}}

BuilderInit ==
    /\ pc = "builder"
    /\ config \in DirectConfigs \cup FileConfigs
    /\ bpe = None
    /\ cache = None
    /\ last = NoCall

\* BPE::read_file(vocab, merges) on the files of the builder
ReadFileCall ==
    /\ pc = "builder"
    /\ config.files # None
    /\ last' = [op |-> "read_file", files |-> Unwrap(config.files),
                result |-> ReadFile(Unwrap(config.files))]
    /\ UNCHANGED <<pc, config, bpe, cache>>

\* model.save(folder, None)
Save ==
    /\ pc = "ready"
    /\ last' = [op |-> "save", files |-> SaveFiles(bpe)]
    /\ UNCHANGED <<pc, config, bpe, cache>>

\* the options of a model, as a builder would be given them
OptionsOf(m) ==
    [DefaultConfig EXCEPT !.dropout = m.dropout, !.unk_token = m.unk_token,
                          !.continuing_subword_prefix = m.continuing_subword_prefix,
                          !.end_of_word_suffix = m.end_of_word_suffix,
                          !.fuse_unk = m.fuse_unk, !.byte_fallback = m.byte_fallback,
                          !.ignore_merges = m.ignore_merges]

\* BPE::from_file(vocab, merges) on the two files saved, then build: the
\* builder is BPE::builder() with the files, left as it is or given the
\* options of the saved model again
FromFile(options) ==
    /\ pc = "ready"
    /\ last.op = "save"
    /\ LET cfg == [options EXCEPT !.files = Some(last.files)]
           out == BuildOutcome(cfg)
       IN  IF out.kind # "ok"
           THEN last' = [op |-> "from_file", config |-> cfg, result |-> out]
           ELSE \E vocab_r \in VocabR(Loaded(cfg).config.vocab) :
                   last' = [op |-> "from_file", config |-> cfg,
                            result |-> [kind |-> "ok",
                                        model |-> BuiltModel(Loaded(cfg).config, vocab_r,
                                                             out.merges)]]
    /\ UNCHANGED <<pc, config, bpe, cache>>

Reload ==
    /\ pc = "ready"
    /\ \E options \in {DefaultConfig, OptionsOf(bpe)} : FromFile(options)

BuilderNext ==
    \/ BuildErr
    \/ BuildPanic
    \/ BuildOk
    \/ ReadFileCall
    \/ Save
    \/ Reload

BuilderSpec == BuilderInit /\ [][BuilderNext]_vars

----------------------------------------------------------------------------
(* What the properties speak of *)

\* the last operation was a tokenize call on the model as it is now
Called == pc = "ready" /\ last.op = "tokenize"

\* ... and it returned a token list
Returned == Called /\ last.result.kind = "ok"

TokenLen(tok) == tok.offsets[2] - tok.offsets[1]

\* the characters of w: byte span [from, to), text, and the string looked up
CharsOf(m, w) ==
    LET starts == CharStarts(w)
        n == Len(starts)
    IN  [k \in 1..n |->
            LET to == IF k = n THEN Len(w) ELSE starts[k + 1] - 1
                text == SubSeq(w, starts[k], to)
            IN  [from |-> starts[k] - 1, to |-> to, text |-> text,
                 looked |-> (IF k > 1 /\ m.continuing_subword_prefix # None
                             THEN Unwrap(m.continuing_subword_prefix) ELSE << >>)
                            \o text
                            \o (IF k = n /\ m.end_of_word_suffix # None
                                THEN Unwrap(m.end_of_word_suffix) ELSE << >>)]]

RECURSIVE SumLen(_, _)
SumLen(chars, k) ==
    IF k > Len(chars) THEN 0 ELSE (chars[k].to - chars[k].from) + SumLen(chars, k + 1)

\* every byte of the string has its "<0xNN>" token in the vocabulary
BytesInVocab(m, bytes) == \A j \in 1..Len(bytes) : ByteCode(bytes[j]) \in DOMAIN m.vocab

\* the ids of the byte tokens of the vocabulary
ByteIds(m) == {m.vocab[ByteCode(b)] : b \in {x \in 0..255 : ByteCode(x) \in DOMAIN m.vocab}}

UnkInVocab(m) == m.unk_token # None /\ Unwrap(m.unk_token) \in DOMAIN m.vocab

UnkId(m) == m.vocab[Unwrap(m.unk_token)]

\* the tokens are in input order: none starts before the one before it ends
InOrder(tokens) ==
    \A k \in 1..(Len(tokens) - 1) : tokens[k].offsets[2] <= tokens[k + 1].offsets[1]

Spans(seq) == [k \in 1..Len(seq) |-> <<seq[k].from, seq[k].to>>]

OffsetsOf(tokens) == [k \in 1..Len(tokens) |-> tokens[k].offsets]

----------------------------------------------------------------------------
(* C1 *)

\* C1: the offsets of the tokens returned for a non-empty sequence tile it: the
\* first starts at 0, each ends where the next starts, the last ends at len(s).
C1_OffsetsTile ==
    (Returned /\ last.sequence # << >>) =>
        LET tokens == last.result.tokens
        IN  /\ Len(tokens) > 0
            /\ tokens[1].offsets[1] = 0
            /\ \A k \in 1..(Len(tokens) - 1) :
                  tokens[k].offsets[2] = tokens[k + 1].offsets[1]
            /\ tokens[Len(tokens)].offsets[2] = Len(last.sequence)

----------------------------------------------------------------------------
(* C2 *)

\* C2: with dropout None or 0.0 the result of tokenize(s) is the one a model
\* without any cache contents gives, whatever calls came before.
C2_PureWithoutDropout ==
    (Called /\ bpe.dropout \in {None, Some(0)}) =>
        \A o \in TokenizeOutcomes(bpe, None, last.sequence) : last.result = o.result

\* a Word of two tokens served from the cache
C2_Witness ==
    /\ Returned
    /\ bpe.dropout \in {None, Some(0)}
    /\ last.path = "hit"
    /\ Len(last.result.tokens) = 2

----------------------------------------------------------------------------
(* C3 *)

\* C3: with ignore_merges, a non-empty sequence that is a vocab key is returned
\* as the single token (vocab[sequence], sequence, (0, len)), without merge_word
\* running, under every dropout setting.
C3_ShortcutAnyDropout ==
    (Called /\ bpe.ignore_merges /\ last.sequence # << >>
            /\ last.sequence \in DOMAIN bpe.vocab) =>
        last.result = Ok(<<Token(bpe.vocab[last.sequence], last.sequence,
                                 <<0, Len(last.sequence)>>)>>)

----------------------------------------------------------------------------
(* C4 *)

\* byte fallback resolves some character of w
ByteFallbackApplies(m, w) ==
    /\ m.byte_fallback
    /\ \E k \in 1..Len(CharsOf(m, w)) :
          /\ CharsOf(m, w)[k].looked \notin DOMAIN m.vocab
          /\ ByteTokens(m, FallbackBytes(CharsOf(m, w)[k].looked, CharsOf(m, w)[k].text)) # None

C4_Case ==
    /\ Returned
    /\ last.path # "shortcut"
    /\ UnkInVocab(bpe)
    /\ ~bpe.fuse_unk
    /\ ~ByteFallbackApplies(bpe, last.sequence)

----------------------------------------------------------------------------
(* C5 *)

\* the character takes the unk path: not in the vocab, not resolved by bytes
NeedsUnk(m, c) ==
    /\ c.looked \notin DOMAIN m.vocab
    /\ ~(m.byte_fallback /\ BytesInVocab(m, c.text))

\* the byte spans of the maximal runs of consecutive characters that need an unk
RECURSIVE UnkRuns(_, _, _, _)
UnkRuns(m, chars, k, open) ==
    IF k > Len(chars)
    THEN (IF open # None THEN <<Unwrap(open)>> ELSE << >>)
    ELSE IF NeedsUnk(m, chars[k])
    THEN UnkRuns(m, chars, k + 1,
                 IF open # None THEN Some(<<Unwrap(open)[1], chars[k].to>>)
                 ELSE Some(<<chars[k].from, chars[k].to>>))
    ELSE (IF open # None THEN <<Unwrap(open)>> ELSE << >>)
         \o UnkRuns(m, chars, k + 1, None)

\* C5: with fuse_unk every maximal run of consecutive unknown characters gives
\* exactly one token, with the id of unk_token and the offsets of the run, and
\* no two UNK tokens are adjacent in the output.
C5_UnkRunsFused ==
    (Returned /\ UnkInVocab(bpe) /\ bpe.fuse_unk) =>
        LET tokens == last.result.tokens
            unks == SelectSeq(tokens, LAMBDA tok : tok.id = UnkId(bpe))
        IN  /\ OffsetsOf(unks) = UnkRuns(bpe, CharsOf(bpe, last.sequence), 1, None)
            /\ \A k \in 1..(Len(tokens) - 1) :
                  ~(tokens[k].id = UnkId(bpe) /\ tokens[k + 1].id = UnkId(bpe))

----------------------------------------------------------------------------
(* C6 *)

\* C6: with byte_fallback a character whose decorated form is not a vocab key
\* gives one byte token per byte of its undecorated span exactly when each of
\* those bytes has a "<0xNN>" token; so the byte tokens of the output are as
\* many as the bytes of those characters, also with a prefix or a suffix.
C6_BytesOfUndecorated ==
    (Returned /\ bpe.byte_fallback) =>
        LET resolved == SelectSeq(CharsOf(bpe, last.sequence),
                                  LAMBDA c : /\ c.looked \notin DOMAIN bpe.vocab
                                             /\ BytesInVocab(bpe, c.text))
            bytes == SelectSeq(last.result.tokens, LAMBDA tok : tok.id \in ByteIds(bpe))
        IN  /\ Len(bytes) = SumLen(resolved, 1)
            /\ \A k \in 1..Len(bytes) : TokenLen(bytes[k]) = 1

----------------------------------------------------------------------------
(* C7 *)

\* C7: every character is looked up with the prefix when it is not the first and
\* with the suffix when it is the last; one found this way gives a symbol of the
\* character's own byte length (seen without merges, dropout 1.0), and no byte
\* of a prefix or suffix is part of any token's offsets.
C7_DecorationTakesNoBytes ==
    (Returned /\ last.path # "shortcut") =>
        LET chars == CharsOf(bpe, last.sequence)
            tokens == last.result.tokens
        IN  /\ bpe.dropout = Some(DropScale) =>
                  \A k \in 1..Len(chars) :
                      chars[k].looked \in DOMAIN bpe.vocab =>
                          \E j \in 1..Len(tokens) :
                              /\ tokens[j].id = bpe.vocab[chars[k].looked]
                              /\ TokenLen(tokens[j]) = chars[k].to - chars[k].from
            /\ \A j \in 1..Len(tokens) : tokens[j].offsets[2] <= Len(last.sequence)

----------------------------------------------------------------------------
(* C8 *)

\* C8: with dropout 1.0 tokenize gives one token per symbol of the character
\* pass of merge_word, in order, whatever the merge map holds.
C8_DropoutOneNoMerge ==
    (Called /\ bpe.dropout = Some(DropScale) /\ last.sequence # << >>) =>
        last.result = Tokens(bpe, CharPass(bpe, last.sequence))

\* a call under dropout 1.0 on a Word that has a pair of the merge map
C8_Witness ==
    /\ Returned
    /\ bpe.dropout = Some(DropScale)
    /\ Len(last.result.tokens) = 3
    /\ InitialQueue(CharPass(bpe, last.sequence).word, bpe.merges) # {}

----------------------------------------------------------------------------
(* C9 *)

\* C9: under dropout Some(0.0) tokenize returns what the same model returns with
\* dropout None, on its cache as it is and on no cache.
C9_ZeroIsNone ==
    (Called /\ bpe.dropout = Some(0)) =>
        \A c \in {None, cache} :
            \A o \in TokenizeOutcomes([bpe EXCEPT !.dropout = None], c, last.sequence) :
                o.result = last.result

\* a merged Word returned under dropout 0.0
C9_Witness ==
    /\ Returned
    /\ bpe.dropout = Some(0)
    /\ last.path \in {"miss", "hit"}
    /\ \E k \in 1..Len(last.result.tokens) :
          last.result.tokens[k].id \in {bpe.merges[pr][2] : pr \in DOMAIN bpe.merges}

----------------------------------------------------------------------------
(* C10 *)

----------------------------------------------------------------------------
(* C11 *)

C11_Case ==
    /\ Returned
    /\ bpe.dropout \in {None, Some(0)}
    /\ last.sequence # << >>
    /\ Len(last.sequence) < MAX_LENGTH

\* C11 as stated: with dropout disabled, after tokenize(s) returned for an s
\* shorter than MAX_LENGTH, a second tokenize(s) does not run merge_word again
\* (it is a cache hit, or the ignore_merges shortcut answers) and returns the
\* same token list.
C11_SecondCallHits ==
    C11_Case =>
        \A o \in TokenizeOutcomes(bpe, cache, last.sequence) :
            o.path \in {"hit", "shortcut"} /\ o.result = last.result

\* C11: with dropout disabled, after tokenize(s) returned for an s shorter than
\* MAX_LENGTH, a second tokenize(s) returns the same token list, and it is a
\* cache hit exactly when the model has a cache and that cache holds s.
C11_SecondCallEqual ==
    C11_Case =>
        \A o \in TokenizeOutcomes(bpe, cache, last.sequence) :
            /\ o.result = last.result
            /\ o.path = "hit" <=>
                  (cache # None /\ last.sequence \in DOMAIN Unwrap(cache).map)

\* a first call that missed and left its Word in the cache
C11_Witness ==
    /\ C11_Case
    /\ last.path = "miss"
    /\ cache # None
    /\ last.sequence \in DOMAIN Unwrap(cache).map
    /\ Len(last.result.tokens) > 0

----------------------------------------------------------------------------
(* C12 *)

\* the character takes the unk branch of merge_word
NeedsUnkEmission(m, c) ==
    /\ c.looked \notin DOMAIN m.vocab
    /\ ~m.byte_fallback \/ ByteTokens(m, FallbackBytes(c.looked, c.text)) = None
    /\ m.unk_token # None

\* some character of w needs an UNK while unk_token is no vocab key
UnkFailure(m, w) ==
    /\ \E k \in 1..Len(CharsOf(m, w)) : NeedsUnkEmission(m, CharsOf(m, w)[k])
    /\ Unwrap(m.unk_token) \notin DOMAIN m.vocab

UnkError(m) == [kind |-> "err", error |-> <<"UnkTokenOutOfVocabulary", Unwrap(m.unk_token)>>]

\* C12 as stated: tokenize(s) fails, with UnkTokenOutOfVocabulary(unk_token),
\* exactly when some character of s needs an UNK while unk_token is no vocab
\* key, and returns no other error.
C12_FailsIffUnkMissing ==
    Called =>
        /\ last.result.kind \in {"ok", "err"}
        /\ last.result.kind = "err" <=> UnkFailure(bpe, last.sequence)
        /\ last.result.kind = "err" => last.result = UnkError(bpe)

\* C12: tokenize(s) fails, with UnkTokenOutOfVocabulary(unk_token), exactly when
\* merge_word runs on s (s is not answered by the ignore_merges shortcut) and
\* some character of s needs an UNK while unk_token is no vocab key; it returns
\* no other error.
C12_FailsIffUnkMissingInPass ==
    Called =>
        /\ last.result.kind \in {"ok", "err"}
        /\ last.result.kind = "err" <=>
              /\ UnkFailure(bpe, last.sequence)
              /\ ~(/\ bpe.ignore_merges
                   /\ last.sequence \in DOMAIN bpe.vocab
                   /\ bpe.dropout \in {None, Some(0)})
        /\ last.result.kind = "err" => last.result = UnkError(bpe)

\* a failure at the third character, after two that resolved
C12_Witness ==
    /\ Called
    /\ last.result.kind = "err"
    /\ last.result = UnkError(bpe)
    /\ Len(CharsOf(bpe, last.sequence)) = 3
    /\ \A k \in 1..2 : CharsOf(bpe, last.sequence)[k].looked \in DOMAIN bpe.vocab

----------------------------------------------------------------------------
(* merge_all step by step: merge_word has made the Word of a sequence, and   *)
(* one entry of the queue is popped at a time. The Word and the queue of the *)
(* call are kept in last.                                                    *)

\* ("a","a$") ("a","a") ("a","aa$"): the pair ranked first is the right one of "aaa$"
MergesRightFirst ==
    << <<<<97>>, <<97, 36>>>>, <<<<97>>, <<97>>>>, <<<<97>>, <<97, 97, 36>>>> >>

WordConfigs ==
    {[DefaultConfig EXCEPT !.vocab = Vocab0, !.merges = ms, !.dropout = d,
                           !.end_of_word_suffix = x, !.cache_capacity = 0] :
        ms \in {MergesPlain, MergesRightFirst},
        d \in {None, Some(0), Some(1)},
        x \in {None, Some(StrSuffix)}}

WordInit ==
    /\ pc = "ready"
    /\ config = None
    /\ \E cfg \in WordConfigs : \E vocab_r \in VocabR(cfg.vocab) :
          bpe = BuiltModel(cfg, vocab_r, BuildOutcome(cfg).merges)
    /\ cache = None
    /\ last = NoCall

\* merge_word up to the call of merge_all, which fills its queue
MergeAllStart(w) ==
    /\ pc = "ready"
    /\ CharPass(bpe, w).kind = "ok"
    /\ pc' = "merging"
    /\ last' = [op |-> "merge_all", step |-> "start",
                word |-> CharPass(bpe, w).word,
                queue |-> InitialQueue(CharPass(bpe, w).word, bpe.merges),
                dropout |-> MergeDropout(bpe)]
    /\ UNCHANGED <<config, bpe, cache>>

\* the entry popped is stale: discarded
PopStale ==
    /\ pc = "merging"
    /\ last.queue # {}
    /\ Stale(last.word, bpe.merges, PopMin(last.queue))
    /\ last' = [op |-> "merge_all", step |-> "stale", word |-> last.word,
                queue |-> last.queue \ {PopMin(last.queue)}, dropout |-> last.dropout]
    /\ UNCHANGED <<pc, config, bpe, cache>>

\* the entry popped is valid and the dropout draw skips it
PopSkip ==
    /\ pc = "merging"
    /\ last.queue # {}
    /\ ~Stale(last.word, bpe.merges, PopMin(last.queue))
    /\ TRUE \in SkipOutcomes(last.dropout)
    /\ last' = [op |-> "merge_all", step |-> "skip", word |-> last.word,
                queue |-> last.queue \ {PopMin(last.queue)}, dropout |-> last.dropout]
    /\ UNCHANGED <<pc, config, bpe, cache>>

\* the entry popped is valid and applied; the pairs it forms are enqueued
PopApply ==
    /\ pc = "merging"
    /\ last.queue # {}
    /\ ~Stale(last.word, bpe.merges, PopMin(last.queue))
    /\ FALSE \in SkipOutcomes(last.dropout)
    /\ LET top == PopMin(last.queue)
           merged == ApplyMerge(last.word, top)
       IN  last' = [op |-> "merge_all", step |-> "apply", word |-> merged,
                    queue |-> (last.queue \ {top}) \cup NewPairs(merged, bpe.merges, top.i),
                    dropout |-> last.dropout, applied |-> top, before |-> last.word]
    /\ UNCHANGED <<pc, config, bpe, cache>>

\* the queue is empty: merge_all returns
MergeAllReturn ==
    /\ pc = "merging"
    /\ last.queue = {}
    /\ pc' = "ready"
    /\ last' = [op |-> "merged", word |-> last.word, dropout |-> last.dropout]
    /\ UNCHANGED <<config, bpe, cache>>

MaxWordBytes == 4

\* the sequences merge_word is given here
WordInputs == {s \in StrsUpTo(MaxWordBytes) : Len(s) <= MaxWordBytes}

MergeAllCall == \E w \in WordInputs : MergeAllStart(w)

WordNext ==
    \/ MergeAllCall
    \/ PopStale
    \/ PopSkip
    \/ PopApply
    \/ MergeAllReturn

WordSpec == WordInit /\ [][WordNext]_vars

\* a step of the loop of merge_all, or its return
MergeAllStep == PopStale \/ PopSkip \/ PopApply \/ MergeAllReturn

\* the thread in merge_all keeps running
WordLiveSpec == WordInit /\ [][WordNext]_vars /\ WF_vars(MergeAllStep)

----------------------------------------------------------------------------
(* Threads sharing one model: tokenize takes &self, and so does clear_cache. *)
(* Each call goes through tokenize_with_cache one access to the cache at a   *)
(* time; the frames of the threads are kept in last.                         *)

NThreads == 2

Threads == 1..NThreads

\* "a" "c" "aa" "ac" "aaa" and the empty sequence
SharedInputs ==
    {<< >>, <<97>>, <<99>>, <<97, 97>>, <<97, 99>>, <<97, 97, 97>>}

SharedConfigs ==
    {[DefaultConfig EXCEPT !.vocab = Vocab0, !.merges = MergesPlain, !.dropout = d,
                           !.unk_token = u, !.ignore_merges = g] :
        d \in {None, Some(0)},
        u \in {None, Some(StrUnk), Some(StrUnkMissing)},
        g \in BOOLEAN}

Idle == [at |-> "idle"]

Done(sequence, result, path) ==
    [at |-> "done", sequence |-> sequence, result |-> result, path |-> path]

Frames(fs) == [op |-> "threads", frames |-> fs]

SharedInit ==
    /\ pc = "shared"
    /\ config = None
    /\ \E cfg \in SharedConfigs : \E vocab_r \in VocabR(cfg.vocab) :
          /\ bpe = BuiltModel(cfg, vocab_r, BuildOutcome(cfg).merges)
          /\ cache = BuiltCache(cfg)
    /\ last = Frames([t \in Threads |-> Idle])

\* tokenize is entered: the empty sequence and the ignore_merges shortcut return
\* at once, any other call goes on to the cache
ThreadCall(t, sequence) ==
    /\ pc = "shared"
    /\ last.frames[t].at = "idle"
    /\ DropoutDisabled(bpe)
    /\ last' = Frames([last.frames EXCEPT ![t] =
                  IF sequence = << >> THEN Done(sequence, Ok(<< >>), "empty")
                  ELSE IF TakesShortcut(bpe, sequence)
                  THEN Done(sequence, ShortcutTokens(bpe, sequence), "shortcut")
                  ELSE [at |-> "get", sequence |-> sequence]])
    /\ UNCHANGED <<pc, config, bpe, cache>>

\* c.get(sequence): the Word stored for the sequence, or a miss (also when the
\* access loses to another one)
ThreadGet(t) ==
    /\ pc = "shared"
    /\ last.frames[t].at = "get"
    /\ LET f == last.frames[t]
       IN  \E hit \in {None} \cup (IF cache # None
                                   THEN {CacheGet(Unwrap(cache), CacheKey(f.sequence))}
                                   ELSE {}) :
              last' = Frames([last.frames EXCEPT ![t] =
                         IF hit # None
                         THEN Done(f.sequence, WordToTokens(bpe, Unwrap(hit)), "hit")
                         ELSE [at |-> "merge", sequence |-> f.sequence]])
    /\ UNCHANGED <<pc, config, bpe, cache>>

\* merge_word and word_to_tokens; an error returns, and so does a Word that
\* is not to be cached
ThreadMerge(t) ==
    /\ pc = "shared"
    /\ last.frames[t].at = "merge"
    /\ LET f == last.frames[t]
       IN  \E outcome \in MergeWord(bpe, f.sequence) :
              last' = Frames([last.frames EXCEPT ![t] =
                         IF outcome.kind # "ok" \/ cache = None \/ ~Cacheable(f.sequence)
                         THEN Done(f.sequence, Tokens(bpe, outcome), "miss")
                         ELSE [at |-> "set", sequence |-> f.sequence,
                               word |-> outcome.word]])
    /\ UNCHANGED <<pc, config, bpe, cache>>

\* cache.set(sequence, word), then the tokens are returned
ThreadSet(t) ==
    /\ pc = "shared"
    /\ last.frames[t].at = "set"
    /\ LET f == last.frames[t]
       IN  /\ \E c \in CacheSet(Unwrap(cache), CacheKey(f.sequence), f.word) :
                 cache' = Some(c)
           /\ last' = Frames([last.frames EXCEPT ![t] =
                         Done(f.sequence, WordToTokens(bpe, f.word), "miss")])
    /\ UNCHANGED <<pc, config, bpe>>

\* the caller has its result
ThreadReturn(t) ==
    /\ pc = "shared"
    /\ last.frames[t].at = "done"
    /\ last' = Frames([last.frames EXCEPT ![t] = Idle])
    /\ UNCHANGED <<pc, config, bpe, cache>>

\* clear_cache(&self), from any thread at any time
SharedClear ==
    /\ pc = "shared"
    /\ cache # None
    /\ cache' = Some(CacheClear(Unwrap(cache)))
    /\ UNCHANGED <<pc, config, bpe, last>>

SharedCall == \E t \in Threads, sequence \in SharedInputs : ThreadCall(t, sequence)

SharedGet == \E t \in Threads : ThreadGet(t)

SharedMerge == \E t \in Threads : ThreadMerge(t)

SharedSet == \E t \in Threads : ThreadSet(t)

SharedReturn == \E t \in Threads : ThreadReturn(t)

SharedNext ==
    \/ SharedCall
    \/ SharedGet
    \/ SharedMerge
    \/ SharedSet
    \/ SharedReturn
    \/ SharedClear

SharedSpec == SharedInit /\ [][SharedNext]_vars

----------------------------------------------------------------------------
(* The option fields of BPE are public: a caller holding the model mutably   *)
(* can assign them between two tokenize calls.                               *)

\* "ac" "cc" "aa" and "e" with an acute accent (two bytes)
OptionInputs == {<<97, 99>>, <<99, 99>>, <<97, 97>>, <<195, 169>>}

\* the public option fields the cached Word depends on, with the values given
OptionValues ==
    ({"unk_token"} \X {None, Some(StrUnk)})
    \cup ({"fuse_unk", "byte_fallback"} \X BOOLEAN)
    \cup ({"continuing_subword_prefix"} \X {None, Some(StrPrefix)})
    \cup ({"end_of_word_suffix"} \X {None, Some(StrSuffix)})

OptionInit ==
    /\ pc = "ready"
    /\ config = None
    /\ \E cfg \in {[DefaultConfig EXCEPT !.vocab = Vocab0, !.merges = MergesPlain]} :
          \E vocab_r \in VocabR(cfg.vocab) :
             /\ bpe = BuiltModel(cfg, vocab_r, BuildOutcome(cfg).merges)
             /\ cache = BuiltCache(cfg)
    /\ last = NoCall

\* bpe.field = value
SetField(field, value) ==
    /\ pc = "ready"
    /\ bpe' = [bpe EXCEPT ![field] = value]
    /\ last' = [op |-> "set_field", field |-> field]
    /\ UNCHANGED <<pc, config, cache>>

SetOption == \E fv \in OptionValues : SetField(fv[1], fv[2])

OptionTokenize == \E sequence \in OptionInputs : TokenizeCall(sequence)

OptionNext ==
    \/ OptionTokenize
    \/ SetOption
    \/ ClearCache

OptionSpec == OptionInit /\ [][OptionNext]_vars

----------------------------------------------------------------------------
(* Properties of the builder and the files, checked under BuilderSpec *)

Reloaded == last.op = "from_file"

\* C13: what save wrote, read back by from_file and build, is a model with the
\* vocab, the merge map (pairs, ranks, new ids) and the options of the saved one
C13_SaveLoadRoundTrip ==
    Reloaded =>
        /\ last.result.kind = "ok"
        /\ last.result.model.vocab = bpe.vocab
        /\ last.result.model.merges = bpe.merges
        /\ OptionsOf(last.result.model) = OptionsOf(bpe)

Built == last.op = "build"

\* the vocabulary and the merge list build works on: those of the builder, or
\* those read from its files
BuildVocab ==
    IF Loaded(last.config).kind = "ok" THEN Loaded(last.config).config.vocab ELSE << >>

BuildList ==
    IF Loaded(last.config).kind = "ok" THEN Loaded(last.config).config.merges ELSE << >>

\* a + b[prefix_len..], the second token cut short when it is shorter
Concat(a, b, prefix_len) == a \o SubSeq(b, prefix_len + 1, Len(b))

\* the first of a, b, a + b[prefix_len..] that is no token, if any
MissingToken(vocab, merge, prefix_len) ==
    IF merge[1] \notin DOMAIN vocab THEN Some(merge[1])
    ELSE IF merge[2] \notin DOMAIN vocab THEN Some(merge[2])
    ELSE IF Concat(merge[1], merge[2], prefix_len) \notin DOMAIN vocab
    THEN Some(Concat(merge[1], merge[2], prefix_len))
    ELSE None

FirstMissing(vocab, merges, prefix_len) ==
    LET bad == {k \in 1..Len(merges) : MissingToken(vocab, merges[k], prefix_len) # None}
    IN  IF bad = {} THEN None
        ELSE MissingToken(vocab, merges[CHOOSE k \in bad : \A j \in bad : k <= j], prefix_len)

VocabIds(vocab) == {vocab[t] : t \in DOMAIN vocab}

\* C14: build with a valid dropout fails with MergeTokenOutOfVocabulary(t) exactly
\* when some merge lacks a, b or a + b[prefix_len..] in the vocabulary, t being
\* the first missing string of the first such merge; after a successful build
\* every pair key and every new_id of the merge map is an id of the vocabulary
C14_MergeTokenOutOfVocabulary ==
    (Built /\ (last.config.dropout # None => ValidDropout(Unwrap(last.config.dropout)))) =>
        LET missing == FirstMissing(BuildVocab, BuildList, PrefixLen(last.config))
        IN  /\ last.result.kind = "MergeTokenOutOfVocabulary" <=> missing # None
            /\ last.result.kind = "MergeTokenOutOfVocabulary" =>
                   Some(last.result.token) = missing
            /\ last.result.kind = "ok" =>
                   \A pair \in DOMAIN bpe.merges :
                      /\ pair[1] \in VocabIds(bpe.vocab)
                      /\ pair[2] \in VocabIds(bpe.vocab)
                      /\ bpe.merges[pair][2] \in VocabIds(bpe.vocab)

\* the entry the merge at position k (from 1) of the list is given: rank k - 1
ListedEntry(k) ==
    <<k - 1, BuildVocab[Concat(BuildList[k][1], BuildList[k][2], PrefixLen(last.config))]>>

ListedPair(k) == <<BuildVocab[BuildList[k][1]], BuildVocab[BuildList[k][2]]>>

\* C15: after a successful build the merge map holds, for every merge (a, b) at
\* 0-based position r of the list, (id(a), id(b)) -> (r, id(a + b[prefix_len..]))
C15_RankIsPosition ==
    (Built /\ last.result.kind = "ok") =>
        \A k \in 1..Len(BuildList) :
            /\ ListedPair(k) \in DOMAIN bpe.merges
            /\ bpe.merges[ListedPair(k)] = ListedEntry(k)

\* C15: after a successful build the merge map holds exactly the pairs of the
\* list, each with the rank and new id of its last position in the list; pairs
\* listed once are ranked in list order
C15_RankIsLastPosition ==
    (Built /\ last.result.kind = "ok") =>
        /\ DOMAIN bpe.merges = {ListedPair(k) : k \in 1..Len(BuildList)}
        /\ \A k \in 1..Len(BuildList) :
              (\A j \in (k + 1)..Len(BuildList) : ListedPair(j) # ListedPair(k)) =>
                  bpe.merges[ListedPair(k)] = ListedEntry(k)

C15_Witness ==
    /\ Built
    /\ last.result.kind = "ok"
    /\ \E k \in 1..Len(BuildList) :
          /\ \E j \in (k + 1)..Len(BuildList) : ListedPair(j) = ListedPair(k)
          /\ bpe.merges[ListedPair(k)][1] > k - 1

\* C16: build fails with InvalidDropout exactly when a dropout is set and lies
\* outside [0, 1]; a model that is built keeps the dropout it was given
C16_InvalidDropout ==
    Built =>
        /\ last.result.kind = "InvalidDropout" <=>
               /\ last.config.dropout # None
               /\ \/ Unwrap(last.config.dropout) < 0
                  \/ Unwrap(last.config.dropout) > DropScale
        /\ last.result.kind = "ok" => bpe.dropout = last.config.dropout

C16_Witness ==
    /\ Built
    /\ last.result.kind = "ok"
    /\ last.config.dropout = Some(DropScale)
    /\ bpe.dropout = Some(DropScale)

FileRead == last.op = "read_file"

\* the lines of a merges file after the version header that may open it
Body(lines) ==
    IF Len(lines) > 0 /\ StartsWith(lines[1], StrVersion) THEN Tail(lines) ELSE lines

\* the pairs of the lines from the k-th on: an empty line gives none, any other
\* line is two tokens separated by a space or the error at its position
RECURSIVE PairsOf(_, _, _)
PairsOf(body, k, merges) ==
    IF k > Len(body) THEN [kind |-> "ok", merges |-> merges]
    ELSE IF body[k] = << >> THEN PairsOf(body, k + 1, merges)
    ELSE IF Len(SplitOn(body[k], 32)) # 2 THEN [kind |-> "BadMerges", line |-> k]
    ELSE PairsOf(body, k + 1,
                 Append(merges, <<SplitOn(body[k], 32)[1], SplitOn(body[k], 32)[2]>>))

\* C17: reading a merges file skips the version header that may open it and
\* turns the remaining lines into pairs in file order; every non-empty line
\* is exactly two tokens, and the first that is not fails the read with
\* BadMerges(n), n its position from 1 once the header is left out
C17_MergesFile ==
    (FileRead /\ ReadVocab(last.files.vocab).kind = "ok") =>
        LET pairs == PairsOf(Body(last.files.merges), 1, << >>)
        IN  IF pairs.kind = "ok"
            THEN last.result.kind = "ok" /\ last.result.merges = pairs.merges
            ELSE last.result = pairs

\* C18: read_file fails with BadVocabulary whenever the vocab JSON is no object
\* or holds a value that is no non-negative integer; when it succeeds the vocab
\* returned has one entry for every key of the object
C18_BadVocabulary ==
    (FileRead /\ last.files.vocab.kind # "invalid") =>
        /\ (\/ last.files.vocab.kind # "object"
            \/ \E token \in DOMAIN last.files.vocab.map :
                  last.files.vocab.map[token].t # "PosInt")
              => last.result.kind = "BadVocabulary"
        /\ last.result.kind = "ok" =>
              DOMAIN last.result.vocab = DOMAIN last.files.vocab.map

----------------------------------------------------------------------------
(* Properties of merge_all, checked under WordSpec *)

\* the adjacent live pairs of a Word that are keys of the merge map
Applicable(word, merges) ==
    {i \in 0..(Len(word) - 1) :
        /\ Live(word, i)
        /\ Live(word, word[i + 1].next)
        /\ <<word[i + 1].c, word[word[i + 1].next + 1].c>> \in DOMAIN merges}

RankAt(word, merges, i) == merges[<<word[i + 1].c, word[word[i + 1].next + 1].c>>][1]

Applied == pc = "merging" /\ last.step = "apply"

\* C19: without dropout the merge that merge_all applies is, among the adjacent
\* pairs of the Word that the merge map holds at that moment, one of the lowest
\* rank, and among those of that rank the leftmost
C19_LowestRankLeftmost ==
    (Applied /\ last.dropout \in {None, Some(0)}) =>
        /\ last.applied.i \in Applicable(last.before, bpe.merges)
        /\ last.before[last.applied.i + 1].next = last.applied.j
        /\ last.applied.rank = RankAt(last.before, bpe.merges, last.applied.i)
        /\ \A i \in Applicable(last.before, bpe.merges) :
              \/ last.applied.rank < RankAt(last.before, bpe.merges, i)
              \/ /\ last.applied.rank = RankAt(last.before, bpe.merges, i)
                 /\ last.applied.i <= i

\* two occurrences of the pair applied were open, and so was a pair of higher rank
\* to the left of the one applied
C19_Witness ==
    /\ Applied
    /\ last.dropout \in {None, Some(0)}
    /\ \/ \E i \in Applicable(last.before, bpe.merges) :
             /\ i > last.applied.i
             /\ RankAt(last.before, bpe.merges, i) = last.applied.rank
       \/ \E i \in Applicable(last.before, bpe.merges) :
             /\ i < last.applied.i
             /\ RankAt(last.before, bpe.merges, i) > last.applied.rank

\* C20: when merge_all returns with dropout disabled, no two adjacent live
\* symbols of the Word are a pair of the merge map
C20_NothingLeftToMerge ==
    (pc = "ready" /\ last.op = "merged" /\ last.dropout \in {None, Some(0)}) =>
        Applicable(last.word, bpe.merges) = {}

\* the Word returned is one symbol made by two merges, the second of a pair that
\* the first one formed to its left
C20_Witness ==
    /\ pc = "ready"
    /\ last.op = "merged"
    /\ last.dropout \in {None, Some(0)}
    /\ Len(last.word) = 3
    /\ Len(LiveSymbols(last.word)) = 1
    /\ last.word[1].len = 3
    /\ \E pair \in DOMAIN bpe.merges : bpe.merges[pair][2] = last.word[2].c

----------------------------------------------------------------------------
(* Properties of merge_word and of the cache, checked under Spec *)

\* the symbols (id, byte length) of a Word, in array order
SymbolsOf(word) == [k \in 1..Len(word) |-> [c |-> word[k].c, len |-> word[k].len]]

PendingSymbol(open) ==
    IF open # None THEN <<[c |-> Unwrap(open).id, len |-> Unwrap(open).len]>> ELSE << >>

\* the symbols of the characters from the k-th on in input order: a pending UNK
\* comes before the symbol of a resolved character or the byte symbols of one
RECURSIVE InInputOrder(_, _, _, _)
InInputOrder(m, chars, k, open) ==
    IF k > Len(chars) THEN PendingSymbol(open)
    ELSE LET ch == chars[k]
             byte_len == ch.to - ch.from
             tokens == IF m.byte_fallback
                       THEN ByteTokens(m, FallbackBytes(ch.looked, ch.text)) ELSE None
         IN  IF ch.looked \in DOMAIN m.vocab
             THEN PendingSymbol(open) \o <<[c |-> m.vocab[ch.looked], len |-> byte_len]>>
                  \o InInputOrder(m, chars, k + 1, None)
             ELSE IF tokens # None
             THEN PendingSymbol(open)
                  \o [j \in 1..Len(Unwrap(tokens)) |-> [c |-> Unwrap(tokens)[j], len |-> 1]]
                  \o InInputOrder(m, chars, k + 1, None)
             ELSE IF m.unk_token = None THEN InInputOrder(m, chars, k + 1, open)
             ELSE IF open # None /\ m.fuse_unk
             THEN InInputOrder(m, chars, k + 1,
                               Some([id |-> UnkId(m), len |-> Unwrap(open).len + byte_len]))
             ELSE PendingSymbol(open)
                  \o InInputOrder(m, chars, k + 1, Some([id |-> UnkId(m), len |-> byte_len]))

\* C21: the symbols merge_word adds to the Word are in input order: a pending
\* UNK is added before the symbol of a later character resolved in the vocab
\* or by byte fallback, so that its offsets are those of its own characters
C21_UnkFlushedFirst ==
    (Called /\ CharPass(bpe, last.sequence).kind = "ok") =>
        SymbolsOf(CharPass(bpe, last.sequence).word)
            = InInputOrder(bpe, CharsOf(bpe, last.sequence), 1, None)

RECURSIVE TotalLen(_, _)
TotalLen(symbols, k) ==
    IF k > Len(symbols) THEN 0 ELSE symbols[k].len + TotalLen(symbols, k + 1)

\* the character resolves neither in the vocab nor through byte fallback
Unresolved(m, ch) ==
    /\ ch.looked \notin DOMAIN m.vocab
    /\ ~(m.byte_fallback /\ ByteTokens(m, FallbackBytes(ch.looked, ch.text)) # None)

\* the offsets are running sums from 0 that end at total
RunningSums(tokens, total) ==
    /\ \A k \in 1..Len(tokens) :
          tokens[k].offsets[1] = (IF k = 1 THEN 0 ELSE tokens[k - 1].offsets[2])
    /\ (IF tokens = << >> THEN 0 ELSE tokens[Len(tokens)].offsets[2]) = total

NoUnkCall == Called /\ last.sequence # << >> /\ bpe.unk_token = None

\* what C22 says of the call
SilentDrop ==
    LET chars == CharsOf(bpe, last.sequence)
    IN  /\ last.result.kind = "ok"
        /\ RunningSums(last.result.tokens,
                       TotalLen(InInputOrder(bpe, chars, 1, None), 1))
        /\ (\A k \in 1..Len(chars) : Unresolved(bpe, chars[k])) =>
               last.result.tokens = << >>

\* C22: without unk_token, tokenize succeeds on a sequence with characters that
\* resolve neither in the vocab nor by byte fallback, emits nothing for them and
\* takes the offsets as running sums of the emitted symbols' lengths only
C22_SilentDropAlways == NoUnkCall => SilentDrop

\* C22: the same of the calls that do not return through the ignore_merges
\* shortcut, which gives the whole sequence as one token; for those the symbols
\* merge_word adds are those of the resolved characters alone
C22_SilentDropInPass ==
    (NoUnkCall /\ last.path # "shortcut") =>
        /\ SilentDrop
        /\ SymbolsOf(CharPass(bpe, last.sequence).word)
              = InInputOrder(bpe, CharsOf(bpe, last.sequence), 1, None)

\* an unresolved character, then a resolved one whose token starts at 0
C22_Witness ==
    /\ NoUnkCall
    /\ last.path # "shortcut"
    /\ Len(CharsOf(bpe, last.sequence)) >= 2
    /\ Unresolved(bpe, CharsOf(bpe, last.sequence)[1])
    /\ ~Unresolved(bpe, CharsOf(bpe, last.sequence)[2])
    /\ last.result.kind = "ok"
    /\ Len(last.result.tokens) > 0
    /\ last.result.tokens[1].offsets[1] = 0

\* C23: a tokenize call made while dropout is set and not 0.0 leaves the cache
\* as it was, and its result is one merge_word gives on its own, whatever the
\* cache holds
C23_DropoutBypassesCache ==
    [][(pc = "ready" /\ last'.op = "tokenize" /\ bpe.dropout \notin {None, Some(0)}) =>
          /\ cache' = cache
          /\ last'.path \in {"fresh", "empty"}
          /\ last'.result \in {Tokens(bpe, outcome) :
                                  outcome \in MergeWord(bpe, last'.sequence)}]_vars

\* the sequence of the call is in the cache, and the call returned other tokens
\* than the cached Word has
C23_Witness ==
    /\ Called
    /\ last.path = "fresh"
    /\ cache # None
    /\ last.sequence \in DOMAIN Unwrap(cache).map
    /\ last.result # WordToTokens(bpe, Unwrap(cache).map[last.sequence])

CacheKeys(c) == IF c = None THEN {} ELSE DOMAIN Unwrap(c).map

\* C24: every key of the cache is shorter than MAX_LENGTH. A tokenize call puts
\* no other key in the cache than its sequence, on a miss with dropout
\* disabled; it leaves the cache as it was when the sequence has MAX_LENGTH
\* bytes or more, and the sequence is cached after a miss on a shorter one
\* when the cache has room
C24_CachedKeysShort ==
    [][/\ \A key \in CacheKeys(cache') : Len(key) < MAX_LENGTH
       /\ (pc = "ready" /\ last'.op = "tokenize") =>
             /\ \A key \in CacheKeys(cache') \ CacheKeys(cache) :
                   /\ key = last'.sequence
                   /\ last'.path = "miss"
                   /\ DropoutDisabled(bpe)
             /\ Len(last'.sequence) >= MAX_LENGTH =>
                   cache' = cache /\ last'.path # "hit"
             /\ (/\ last'.path = "miss"
                 /\ last'.result.kind = "ok"
                 /\ Len(last'.sequence) < MAX_LENGTH
                 /\ cache # None
                 /\ Cardinality(CacheKeys(cache)) < Unwrap(cache).capacity) =>
                   last'.sequence \in CacheKeys(cache')]_vars

\* a sequence of MAX_LENGTH bytes was tokenized on a model whose cache holds a
\* shorter one
C24_Witness ==
    /\ Called
    /\ DropoutDisabled(bpe)
    /\ Len(last.sequence) = MAX_LENGTH
    /\ last.path = "miss"
    /\ last.result.kind = "ok"
    /\ \E key \in CacheKeys(cache) : Len(key) = MAX_LENGTH - 1

----------------------------------------------------------------------------
(* Properties of the shared model, checked under SharedSpec *)

\* what tokenize returns for the sequence on a model whose cache is empty
Sequential(sequence) ==
    {o.result : o \in TokenizeOutcomes(bpe,
                                      IF cache = None THEN None
                                      ELSE Some(NewCache(Unwrap(cache).capacity)),
                                      sequence)}

\* C25: however the calls of the threads and clear_cache interleave, with dropout
\* disabled every call returns what a call on an empty cache returns, and every
\* Word in the cache is the whole Word of merge_word for its own key
C25_CallsAsSequential ==
    pc = "shared" =>
        /\ \A t \in Threads :
              last.frames[t].at = "done" =>
                  last.frames[t].result \in Sequential(last.frames[t].sequence)
        /\ \A key \in CacheKeys(cache) :
              [kind |-> "ok", word |-> Unwrap(cache).map[key]] \in MergeWord(bpe, key)

\* one thread was served the Word from the cache while the other, past its own
\* miss, is about to set a Word for another sequence
C25_Witness ==
    /\ pc = "shared"
    /\ \E t, u \in Threads :
          /\ last.frames[t].at = "done"
          /\ last.frames[t].path = "hit"
          /\ Len(last.frames[t].result.tokens) > 0
          /\ last.frames[u].at = "set"
          /\ last.frames[u].sequence # last.frames[t].sequence

----------------------------------------------------------------------------
(* Properties of merge_all, checked under WordSpec and WordLiveSpec *)

\* C26: merge_all returns, whatever the Word, the merge map and the dropout
\* draws: its queue becomes empty
C26_MergeAllTerminates == (pc = "merging") ~> (pc = "ready" /\ last.op = "merged")

\* merge_all has returned from a call in which dropout could skip entries and
\* a merge was applied all the same
C26_Witness ==
    /\ pc = "ready"
    /\ last.op = "merged"
    /\ last.dropout \notin {None, Some(0)}
    /\ \E k \in 1..Len(last.word) : last.word[k].len = 0

LiveIndices(word) == {i \in 0..(Len(word) - 1) : Live(word, i)}

\* the live symbols are one list in array order: each is linked to the live
\* symbol next before it and next after it, or to the sentinel -1 at the ends
WellFormed(word) ==
    \A i \in LiveIndices(word) :
        LET before == {k \in LiveIndices(word) : k < i}
            after == {k \in LiveIndices(word) : k > i}
        IN  /\ word[i + 1].prev =
                  (IF before = {} THEN -1 ELSE CHOOSE k \in before : \A x \in before : x <= k)
            /\ word[i + 1].next =
                  (IF after = {} THEN -1 ELSE CHOOSE k \in after : \A x \in after : k <= x)

InMergeAll == last.op \in {"merge_all", "merged"}

\* C27: the Word that merge_word has filled with add, and the Word after every
\* applied merge, is well formed; a merge takes the right symbol of its pair
\* out of the live ones and leaves the others in their order, and the left
\* symbol gets the byte lengths of both, so that the total is kept
C27_WordWellFormed ==
    InMergeAll =>
        /\ WellFormed(last.word)
        /\ (pc = "merging" /\ last.step = "start") =>
              LiveIndices(last.word) = 0..(Len(last.word) - 1)
        /\ (pc = "merging" /\ last.step = "apply") =>
              /\ LiveIndices(last.word) = LiveIndices(last.before) \ {last.applied.j}
              /\ last.word[last.applied.i + 1].len
                    = last.before[last.applied.i + 1].len + last.before[last.applied.j + 1].len
              /\ TotalLen(LiveSymbols(last.word), 1) = TotalLen(LiveSymbols(last.before), 1)

\* a merge whose right symbol had a live successor, now linked to the left one
C27_Witness ==
    /\ Applied
    /\ last.before[last.applied.j + 1].next >= 0
    /\ last.word[last.before[last.applied.j + 1].next + 1].prev = last.applied.i
    /\ last.word[last.applied.i + 1].next = last.before[last.applied.j + 1].next

----------------------------------------------------------------------------
(* Properties of the cache under assignments to the option fields, checked  *)
(* under OptionSpec                                                         *)

\* C28: a token list served from the cache is the one merge_word computes for
\* the sequence under the option fields the model has at the call
C28_HitReflectsOptions ==
    (Called /\ DropoutDisabled(bpe) /\ last.path = "hit") =>
        last.result \in {Tokens(bpe, outcome) : outcome \in MergeWord(bpe, last.sequence)}

----------------------------------------------------------------------------
(* Another property of the builder, checked under BuilderSpec *)

\* C29: build ends with a model or an error value whatever the vocab, the merge
\* list and the continuing_subword_prefix: it does not abort on a merge whose
\* second token is shorter than the prefix
C29_BuildNeverAborts ==
    Built => /\ pc \in {"ready", "error"}
             /\ last.result.kind # "panic"

----------------------------------------------------------------------------
(* The JNI bindings of the pretokenizers: one Java object, its handle field *)
(* and the native objects the calls made on it allocate and free. The frame *)
(* of the object is kept in last: handle is the Java field, objects the     *)
(* native allocations in order, and the other fields describe the last call *)

\* allocations made on the one Java object
MaxAlloc == 2

\* strings passed to pretokenize
JniInputs == {<<>>, <<97>>}

\* JValue::Long(-1), the value finalize stores in handle
FreedHandle == 0 - 1

\* a long field of a Java object before anything is stored in it
NullHandle == 0

PretokenizerClasses == {"WhitespacePretokenizer", "ByteLevelPretokenizer"}

\* _env.get_field(&_obj, "handle", "J")
GetField(handle) == {[kind |-> "ok", j |-> handle], [kind |-> "err", j |-> handle]}

\* the allocations alive at an address
LiveAt(objects, ptr) == {k \in DOMAIN objects : objects[k].addr = ptr /\ objects[k].live}

\* &mut *(ptr as *mut T): the outcomes of making the reference. A reference or
\* a box made from an address that holds no live allocation is undefined: the
\* call may return or abort the process
reinterpret_cast(objects, ptr) ==
    IF LiveAt(objects, ptr) # {} THEN {"returns"} ELSE {"returns", "aborts"}

\* dropping Box::from_raw(ptr): the allocation at ptr is freed
BoxFromRawDrop(objects, ptr) ==
    [k \in DOMAIN objects |->
        IF k \in LiveAt(objects, ptr)
        THEN [objects[k] EXCEPT !.live = FALSE, !.frees = @ + 1]
        ELSE objects[k]]

\* the Java class keeps the jlong allocate returns in its handle field
StoreHandle(frame, value) == [frame EXCEPT !.handle = value]

JniInit ==
    /\ pc = "jni"
    /\ config \in PretokenizerClasses
    /\ bpe = None
    /\ cache = None
    /\ last = [op |-> "none", handle |-> NullHandle, objects |-> <<>>, read |-> None,
               cast |-> None, freed |-> None, outcome |-> "none", result |-> None]

\* Box::into_raw(Box::new(..)) as jlong
Allocate ==
    /\ pc = "jni"
    /\ Len(last.objects) < MaxAlloc
    /\ \E addr \in 1..MaxAlloc :
          /\ LiveAt(last.objects, addr) = {}
          /\ last' = StoreHandle(
                       [last EXCEPT !.op = "allocate",
                                    !.objects = Append(@, [addr |-> addr, live |-> TRUE, frees |-> 0]),
                                    !.read = None, !.cast = None, !.freed = None,
                                    !.outcome = "returns", !.result = Some(addr)],
                       addr)
    /\ UNCHANGED <<pc, config, bpe, cache>>

\* finalize: read handle, store -1, rebuild the box from the value read and
\* drop it
Finalize ==
    /\ pc = "jni"
    /\ \E field \in GetField(last.handle) :
          IF field.kind = "ok"
          THEN \E outcome \in reinterpret_cast(last.objects, field.j) :
                  /\ last' = [last EXCEPT !.op = "finalize",
                                          !.handle = FreedHandle,
                                          !.objects = BoxFromRawDrop(@, field.j),
                                          !.read = Some(field.j),
                                          !.cast = Some(field.j),
                                          !.freed = Some(field.j),
                                          !.outcome = outcome,
                                          !.result = None]
                  /\ pc' = IF outcome = "aborts" THEN "aborted" ELSE "jni"
          ELSE /\ last' = [last EXCEPT !.op = "finalize", !.read = None, !.cast = None,
                                       !.freed = None, !.outcome = "throws",
                                       !.result = None]
               /\ pc' = pc
    /\ UNCHANGED <<config, bpe, cache>>

\* string_vector_to_arraylist: an ArrayList made with the capacity of the
\* vector, or an error
string_vector_to_arraylist(vector) ==
    {[kind |-> "ok", capacity |-> Len(vector)], [kind |-> "err", capacity |-> 0]}

\* pretokenize: the handle is read and made a reference, the input comes back
\* as the one token of a vector. Where get_field fails the ByteLevel binding
\* unwraps the error, the Whitespace binding throws and goes on without a
\* reference
Pretokenize ==
    /\ pc = "jni"
    /\ \E s \in JniInputs : \E field \in GetField(last.handle) :
       \E list \in string_vector_to_arraylist(<<s>>) :
          IF field.kind = "ok"
          THEN \E outcome \in reinterpret_cast(last.objects, field.j) :
                  /\ last' = [last EXCEPT !.op = "pretokenize",
                                          !.read = Some(field.j),
                                          !.cast = Some(field.j),
                                          !.freed = None,
                                          !.outcome = IF outcome = "aborts" THEN outcome
                                                      ELSE IF list.kind = "ok" THEN "returns"
                                                      ELSE "throws",
                                          !.result = IF outcome = "aborts" \/ list.kind = "err"
                                                     THEN None ELSE Some(list)]
                  /\ pc' = IF outcome = "aborts" THEN "aborted" ELSE "jni"
          ELSE IF config = "ByteLevelPretokenizer"
          THEN /\ last' = [last EXCEPT !.op = "pretokenize", !.read = None, !.cast = None,
                                       !.freed = None, !.outcome = "aborts", !.result = None]
               /\ pc' = "aborted"
          ELSE /\ last' = [last EXCEPT !.op = "pretokenize", !.read = None, !.cast = None,
                                       !.freed = None, !.outcome = "throws",
                                       !.result = IF list.kind = "err" THEN None
                                                  ELSE Some(list)]
               /\ pc' = pc
    /\ UNCHANGED <<config, bpe, cache>>

\* decode of the ByteLevelPretokenizer: the handle is read and made a
\* reference, the empty string comes back
Decode ==
    /\ pc = "jni"
    /\ config = "ByteLevelPretokenizer"
    /\ \E field \in GetField(last.handle) :
          IF field.kind = "ok"
          THEN \E outcome \in reinterpret_cast(last.objects, field.j) :
               \E new_string \in {"ok", "err"} :
                  /\ last' = [last EXCEPT !.op = "decode",
                                          !.read = Some(field.j),
                                          !.cast = Some(field.j),
                                          !.freed = None,
                                          !.outcome = IF outcome = "aborts" THEN outcome
                                                      ELSE IF new_string = "ok" THEN "returns"
                                                      ELSE "throws",
                                          !.result = IF outcome = "aborts" \/ new_string = "err"
                                                     THEN None ELSE Some(<<>>)]
                  /\ pc' = IF outcome = "aborts" THEN "aborted" ELSE "jni"
          ELSE /\ last' = [last EXCEPT !.op = "decode", !.read = None, !.cast = None,
                                       !.freed = None, !.outcome = "aborts", !.result = None]
               /\ pc' = "aborted"
    /\ UNCHANGED <<config, bpe, cache>>

JniNext == Allocate \/ Finalize \/ Pretokenize \/ Decode

JniSpec == JniInit /\ [][JniNext]_vars

\* C30: on one pretokenizer object every native allocation is freed at most
\* once, a call reads a live allocation or nothing, and a call that finds the
\* -1 of finalize in handle makes no reference or box from it
C30_HandleDeadAfterFinalize ==
    pc \in {"jni", "aborted"} =>
        /\ \A k \in DOMAIN last.objects : last.objects[k].frees <= 1
        /\ last.read = Some(FreedHandle) => (last.cast = None /\ last.freed = None)

====
